---- MODULE Spec2Model ----
(***************************************************************************)
(* Model of src/vm/contexts.rs: the execution-context core of the VM.      *)
(*   AssetMap          per-principal, per-asset transfer ledger            *)
(*   GlobalContext     transactional scope: save point + AssetMap          *)
(*   Environment /     entry points execute_transaction, execute_contract, *)
(*   OwnedEnvironment  execute_function_as_transaction, eval_read_only,    *)
(*                     initialize_contract                                 *)
(* Two specifications share the module:                                    *)
(*   SpecAssetMap  the AssetMap alone (add_transfer, commit_other)         *)
(*   Spec          the scope stack driven by an arbitrary evaluator        *)
(***************************************************************************)
EXTENDS Integers, Sequences, FiniteSets, TLC

(***************************************************************************)
(* Bounds and input sets                                                   *)
(***************************************************************************)

\* Stand-in for i128::MAX: amounts are signed integers of a narrow width.
I128_MAX == 1

I128_MIN == -I128_MAX - 1

\* add_transfer calls that build the parent AssetMap in SpecAssetMap.
MaxParentTransfers == 1

\* add_transfer calls applied to the child AssetMap in SpecAssetMap.
MaxTransfers == 2

Principals == {"P", "Q"}

Assets == {"C.token", "C.coin"}

Amounts == I128_MIN .. I128_MAX

\* Amounts the parent AssetMap of SpecAssetMap is built from: both ends of
\* the range and a unit.
ParentAmounts == {I128_MIN, 1, I128_MAX}

\* Nested GlobalContexts (save points) opened during one top-level operation.
MaxScopes == 2

\* Evaluator steps (database writes, asset logs, rejected evaluations)
\* taken during one top-level operation.
MaxSteps == 2

\* Asset identifiers the evaluator logs transfers of in Spec.
TxAssets == {"C.token"}

\* Amounts the evaluator logs in Spec.
TxAmounts == {1}

ContractNames == {"C"}

DbKeys == {"k"}

DbValues == {0, 1}

\* tx_name arguments: three functions the contract defines and one it does not.
FunctionNames == {"pay", "get", "helper", "nope"}

ScopeIds == 0 .. MaxScopes

(***************************************************************************)
(* AssetMap                                                                *)
(***************************************************************************)

\* AssetMap::new: map: HashMap::new()
AssetMapNew == [x \in {} |-> 0]

\* HashMap::insert: add or overwrite one key.
MapInsert(m, k, v) == [x \in (DOMAIN m) \cup {k} |-> IF x = k THEN v ELSE m[x]]

\* i128::checked_add: None when the sum leaves the representable range.
checked_add(a, b) ==
    IF a + b > I128_MAX \/ a + b < I128_MIN
    THEN [ok |-> FALSE, val |-> 0]
    ELSE [ok |-> TRUE, val |-> a + b]

\* AssetMap::get_next_amount
get_next_amount(map, principal, asset, amount) ==
    LET current_amount ==
            IF principal \in DOMAIN map
            THEN IF asset \in DOMAIN map[principal] THEN map[principal][asset] ELSE 0
            ELSE 0
    IN checked_add(current_amount, amount)

\* The two inserts that add_transfer and commit_other share: create the
\* principal's inner map when missing, then overwrite the asset's amount.
InsertEntry(map, principal, asset, amount) ==
    LET withPrincipal == IF principal \in DOMAIN map
                         THEN map
                         ELSE MapInsert(map, principal, AssetMapNew)
    IN MapInsert(withPrincipal, principal,
                 MapInsert(withPrincipal[principal], asset, amount))

\* Mutant of add_transfer: unchecked (wrapping) addition.
add_transfer_wrapping(map, principal, asset, amount) ==
    LET cur == IF principal \in DOMAIN map /\ asset \in DOMAIN map[principal]
               THEN map[principal][asset] ELSE 0
        width == I128_MAX - I128_MIN + 1
        wrapped == ((cur + amount - I128_MIN) % width) + I128_MIN
    IN [ok |-> TRUE, map |-> InsertEntry(map, principal, asset, wrapped)]

\* AssetMap::add_transfer: Err(ArithmeticOverflow) leaves the map as it was.
add_transfer(map, principal, asset, amount) ==
    LET next_amount == get_next_amount(map, principal, asset, amount)
    IN IF ~next_amount.ok
       THEN [ok |-> FALSE, map |-> map]
       ELSE [ok |-> TRUE, map |-> InsertEntry(map, principal, asset, next_amount.val)]

\* The (principal, asset) entries of a map.
Entries(map) ==
    {e \in Principals \X Assets : e[1] \in DOMAIN map /\ e[2] \in DOMAIN map[e[1]]}

\* self with the entries `es` of other merged: each amount becomes
\* self's current amount plus other's amount (the to_add buffer applied).
ApplyToAdd(self, other, es) ==
    [p \in (DOMAIN self) \cup {e[1] : e \in es} |->
        [a \in (IF p \in DOMAIN self THEN DOMAIN self[p] ELSE {})
               \cup {e[2] : e \in {x \in es : x[1] = p}} |->
            IF <<p, a>> \in es
            THEN get_next_amount(self, p, a, other[p][a]).val
            ELSE self[p][a]]]

\* Mutant of commit_other: entries are merged as they are visited, so the
\* ones visited before the overflowing entry stay merged.
commit_other_eager(self, other) ==
    LET bad == {e \in Entries(other) :
                    ~get_next_amount(self, e[1], e[2], other[e[1]][e[2]]).ok}
    IN IF bad # {}
       THEN [ok |-> FALSE, map |-> ApplyToAdd(self, other, Entries(other) \ bad)]
       ELSE [ok |-> TRUE, map |-> ApplyToAdd(self, other, Entries(other))]

\* Mutant of commit_other: the child's amount overwrites the parent's.
commit_other_overwrite(self, other) ==
    [ok |-> TRUE,
     map |-> [p \in (DOMAIN self) \cup (DOMAIN other) |->
                [a \in (IF p \in DOMAIN self THEN DOMAIN self[p] ELSE {})
                       \cup (IF p \in DOMAIN other THEN DOMAIN other[p] ELSE {}) |->
                    IF p \in DOMAIN other /\ a \in DOMAIN other[p]
                    THEN other[p][a] ELSE self[p][a]]]]

\* AssetMap::commit_other: every next amount is computed into to_add first;
\* the first overflow returns before self is touched.
commit_other(self, other) ==
    LET bad == {e \in Entries(other) :
                    ~get_next_amount(self, e[1], e[2], other[e[1]][e[2]]).ok}
    IN IF bad # {}
       THEN [ok |-> FALSE, map |-> self]
       ELSE [ok |-> TRUE, map |-> ApplyToAdd(self, other, Entries(other))]

(***************************************************************************)
(* Values, results, contract functions                                     *)
(***************************************************************************)

\* Value: Response{committed: true}, Response{committed: false}, or a value
\* that is no Response.
Values == {"Response(true)", "Response(false)", "Int"}

is_response(v) == v \in {"Response(true)", "Response(false)"}

committed_flag(v) == v = "Response(true)"

\* The errors a result can carry.
Errors == {"RuntimeError", "ArithmeticOverflow", "ParseError", "NoSuchContract",
           "ContractMustReturnBoolean", "UndefinedFunction", "NonPublicFunction",
           "InterpreterError"}

Ok(v) == [ok |-> TRUE, val |-> v, err |-> "none"]

Err(e) == [ok |-> FALSE, val |-> "none", err |-> e]

\* The functions of the contract: pay is public, get is public and
\* read-only, helper is private.
DefinedFunctions ==
    [f \in {"pay", "get", "helper"} |->
        [is_public |-> f # "helper", is_read_only |-> f = "get"]]

\* ContractContext::lookup_function
lookup_function(name) ==
    IF name \in DOMAIN DefinedFunctions
    THEN [some |-> TRUE, func |-> DefinedFunctions[name]]
    ELSE [some |-> FALSE, func |-> [is_public |-> FALSE, is_read_only |-> FALSE]]

(***************************************************************************)
(* Database save points                                                    *)
(***************************************************************************)

\* The database's content: stored values and the contracts inserted.
DbEmpty == [data |-> [k \in DbKeys |-> 0], contracts |-> {}]

\* A save point dropped with neither commit() nor roll_back() called on it.
\* What the drop does is fixed by the database's implementation: either the
\* writes stay in the enclosing save point (leak) or they are discarded.
DropSavePoint(parent_db, self_db, leak) == IF leak THEN self_db ELSE parent_db

(***************************************************************************)
(* GlobalContext                                                           *)
(***************************************************************************)

\* GlobalContext::new (through begin_from): the root scope.  Beside the
\* struct's fields (read_only, asset_map, database, parent_map as has_parent)
\* a scope record carries what the function that opened it keeps on its own
\* stack: db0 (the content when the save point was opened), failed (the
\* error the evaluator is unwinding with) and make_read_only.
GlobalContextNew(db) ==
    [id |-> 0, owner |-> "root", read_only |-> FALSE, has_parent |-> FALSE,
     asset_map |-> AssetMapNew, db |-> db, db0 |-> db, failed |-> "none",
     make_read_only |-> FALSE]

\* Mutant of nest: the child does not inherit read_only.
nest_not_inheriting(self, id, owner) ==
    [id |-> id, owner |-> owner, read_only |-> FALSE, has_parent |-> TRUE,
     asset_map |-> AssetMapNew, db |-> self.db, db0 |-> self.db, failed |-> "none",
     make_read_only |-> FALSE]

\* GlobalContext::nest
nest(self, id, owner) ==
    [id |-> id, owner |-> owner, read_only |-> self.read_only, has_parent |-> TRUE,
     asset_map |-> AssetMapNew, db |-> self.db, db0 |-> self.db, failed |-> "none",
     make_read_only |-> FALSE]

\* GlobalContext::nest_read_only
nest_read_only(self, id, owner) ==
    [id |-> id, owner |-> owner, read_only |-> TRUE, has_parent |-> TRUE,
     asset_map |-> AssetMapNew, db |-> self.db, db0 |-> self.db, failed |-> "none",
     make_read_only |-> FALSE]

\* Mutant of commit: the save point is committed before the merge is tried.
commit_db_first(self, parent_map, parent_db, leak) ==
    LET r == commit_other(parent_map, self.asset_map)
    IN IF self.has_parent /\ ~r.ok
       THEN [ok |-> FALSE, err |-> "ArithmeticOverflow", outcome |-> "committed",
             calls |-> 1, parent_map |-> parent_map, parent_db |-> self.db,
             out_map |-> AssetMapNew]
       ELSE [ok |-> TRUE, err |-> "none", outcome |-> "committed", calls |-> 1,
             parent_map |-> IF self.has_parent THEN r.map ELSE parent_map,
             parent_db |-> self.db,
             out_map |-> IF self.has_parent THEN AssetMapNew ELSE self.asset_map]

\* Mutant of commit: the save point is committed but the scope's AssetMap
\* is never merged into the parent's.
commit_no_merge(self, parent_map, parent_db, leak) ==
    [ok |-> TRUE, err |-> "none", outcome |-> "committed", calls |-> 1,
     parent_map |-> parent_map, parent_db |-> self.db,
     out_map |-> IF self.has_parent THEN AssetMapNew ELSE self.asset_map]

\* GlobalContext::commit.  parent_map is the AssetMap the scope borrows from
\* its parent, parent_db the content of the enclosing save point (for the
\* root: of the database itself).  When commit_other fails the `?` returns
\* before database.commit(): the save point is dropped unresolved.
commit(self, parent_map, parent_db, leak) ==
    IF self.has_parent
    THEN LET r == commit_other(parent_map, self.asset_map)
         IN IF ~r.ok
            THEN [ok |-> FALSE, err |-> "ArithmeticOverflow", outcome |-> "abandoned",
                  calls |-> 0, parent_map |-> parent_map,
                  parent_db |-> DropSavePoint(parent_db, self.db, leak),
                  out_map |-> AssetMapNew]
            ELSE [ok |-> TRUE, err |-> "none", outcome |-> "committed", calls |-> 1,
                  parent_map |-> r.map, parent_db |-> self.db,
                  out_map |-> AssetMapNew]
    ELSE [ok |-> TRUE, err |-> "none", outcome |-> "committed", calls |-> 1,
          parent_map |-> parent_map, parent_db |-> self.db,
          out_map |-> self.asset_map]

\* database.roll_back() followed by the scope going out of use: the
\* enclosing save point keeps the content it had.
roll_back(self, parent_map, parent_db) ==
    [outcome |-> "rolled_back", calls |-> 1, parent_map |-> parent_map,
     parent_db |-> parent_db]

\* Mutant of handle_tx_result: Response{committed: false} is committed too.
handle_tx_result_always_commit(self, parent_map, parent_db, result, leak) ==
    IF result.ok /\ is_response(result.val)
    THEN LET c == commit(self, parent_map, parent_db, leak)
         IN [ret |-> IF c.ok THEN result ELSE Err(c.err), outcome |-> c.outcome,
             calls |-> c.calls, parent_map |-> c.parent_map, parent_db |-> c.parent_db]
    ELSE [ret |-> IF result.ok THEN Err("ContractMustReturnBoolean") ELSE result,
          outcome |-> "rolled_back", calls |-> 1,
          parent_map |-> parent_map, parent_db |-> parent_db]

\* Mutant of handle_tx_result: an overflowing commit is swallowed and the
\* Response is returned as if it had been committed.
handle_tx_result_swallow(self, parent_map, parent_db, result, leak) ==
    IF result.ok
    THEN IF is_response(result.val)
         THEN IF committed_flag(result.val)
              THEN LET c == commit(self, parent_map, parent_db, leak)
                   IN [ret |-> result, outcome |-> c.outcome, calls |-> c.calls,
                       parent_map |-> c.parent_map, parent_db |-> c.parent_db]
              ELSE LET r == roll_back(self, parent_map, parent_db)
                   IN [ret |-> result, outcome |-> r.outcome, calls |-> r.calls,
                       parent_map |-> r.parent_map, parent_db |-> r.parent_db]
         ELSE [ret |-> Err("ContractMustReturnBoolean"), outcome |-> "abandoned",
               calls |-> 0, parent_map |-> parent_map,
               parent_db |-> DropSavePoint(parent_db, self.db, leak)]
    ELSE LET r == roll_back(self, parent_map, parent_db)
         IN [ret |-> result, outcome |-> r.outcome, calls |-> r.calls,
             parent_map |-> r.parent_map, parent_db |-> r.parent_db]

\* GlobalContext::handle_tx_result.  The Ok(non-Response) branch returns
\* ContractMustReturnBoolean without calling roll_back: the scope is dropped
\* with its save point unresolved.
handle_tx_result(self, parent_map, parent_db, result, leak) ==
    IF result.ok
    THEN IF is_response(result.val)
         THEN IF committed_flag(result.val)
              THEN LET c == commit(self, parent_map, parent_db, leak)
                   IN [ret |-> IF c.ok THEN result ELSE Err(c.err),
                       outcome |-> c.outcome, calls |-> c.calls,
                       parent_map |-> c.parent_map, parent_db |-> c.parent_db]
              ELSE LET r == roll_back(self, parent_map, parent_db)
                   IN [ret |-> result, outcome |-> r.outcome, calls |-> r.calls,
                       parent_map |-> r.parent_map, parent_db |-> r.parent_db]
         ELSE [ret |-> Err("ContractMustReturnBoolean"), outcome |-> "abandoned",
               calls |-> 0, parent_map |-> parent_map,
               parent_db |-> DropSavePoint(parent_db, self.db, leak)]
    ELSE LET r == roll_back(self, parent_map, parent_db)
         IN [ret |-> result, outcome |-> r.outcome, calls |-> r.calls,
             parent_map |-> r.parent_map, parent_db |-> r.parent_db]

(***************************************************************************)
(* CallStack                                                               *)
(***************************************************************************)

\* The function identifiers the calls are made with.
FunctionIdentifiers == {"F", "G"}

\* The longest stack insert is called on.
MaxCallDepth == 3

\* CallStack::new
CallStackNew == [stack |-> <<>>, set |-> {}]

\* CallStack::depth
depth(self) == Len(self.stack)

\* CallStack::contains: membership in the tracked set, not in the stack.
contains(self, function) == function \in self.set

\* Mutant of insert: the identifier is tracked whatever the flag.
insert_always_track(self, function, track) ==
    [stack |-> Append(self.stack, function), set |-> self.set \cup {function}]

\* CallStack::insert
insert(self, function, track) ==
    [stack |-> Append(self.stack, function),
     set |-> IF track THEN self.set \cup {function} ELSE self.set]

\* Mutant of remove: a tracked identifier stays in the set.
remove_keep_tracked(self, function, tracked) ==
    IF Len(self.stack) = 0
    THEN [ret |-> Err("InterpreterError"), stack |-> self.stack, set |-> self.set]
    ELSE LET removed == self.stack[Len(self.stack)]
             popped == SubSeq(self.stack, 1, Len(self.stack) - 1)
         IN IF removed # function
            THEN [ret |-> Err("InterpreterError"), stack |-> popped, set |-> self.set]
            ELSE IF tracked /\ function \notin self.set
                 THEN [ret |-> Err("panic"), stack |-> popped, set |-> self.set]
                 ELSE [ret |-> Ok("Unit"), stack |-> popped, set |-> self.set]

\* CallStack::remove.  stack.pop() comes first: when the popped identifier
\* is not the one named, InterpreterError is returned with the top of the
\* stack gone.  A tracked identifier the set does not hold is a panic.
remove(self, function, tracked) ==
    IF Len(self.stack) = 0
    THEN [ret |-> Err("InterpreterError"), stack |-> self.stack, set |-> self.set]
    ELSE LET removed == self.stack[Len(self.stack)]
             popped == SubSeq(self.stack, 1, Len(self.stack) - 1)
         IN IF removed # function
            THEN [ret |-> Err("InterpreterError"), stack |-> popped, set |-> self.set]
            ELSE IF tracked /\ function \notin self.set
                 THEN [ret |-> Err("panic"), stack |-> popped, set |-> self.set]
                 ELSE [ret |-> Ok("Unit"), stack |-> popped,
                       set |-> IF tracked THEN self.set \ {function} ELSE self.set]

(***************************************************************************)
(* LocalContext                                                            *)
(***************************************************************************)

MAX_CONTEXT_DEPTH == 256

\* The variable names and values the evaluator binds and looks up.
VariableNames == {"x", "y"}

BoundNames == {"x"}

VariableValues == {1, 2}

\* The evaluator binds variables in the contexts down to this depth.
MaxBindDepth == 1

\* No parent, no value.
None == [some |-> FALSE, val |-> 0]

Some(v) == [some |-> TRUE, val |-> v]

\* LocalContext::new.  A context's parent is the position, in the chain of
\* live contexts, of the context it borrows.
LocalContextNew == [depth |-> 0, parent |-> None, variables |-> [n \in {} |-> 0]]

\* Mutant of extend: the comparison is > where the code has >=.
extend_off_by_one(chain, self) ==
    IF chain[self].depth > MAX_CONTEXT_DEPTH
    THEN [ok |-> FALSE, err |-> "MaxContextDepthReached", child |-> LocalContextNew]
    ELSE [ok |-> TRUE, err |-> "none",
          child |-> [parent |-> Some(self), variables |-> [n \in {} |-> 0],
                     depth |-> chain[self].depth + 1]]

\* LocalContext::extend on the context at position self of chain.
extend(chain, self) ==
    IF chain[self].depth >= MAX_CONTEXT_DEPTH
    THEN [ok |-> FALSE, err |-> "MaxContextDepthReached", child |-> LocalContextNew]
    ELSE [ok |-> TRUE, err |-> "none",
          child |-> [parent |-> Some(self), variables |-> [n \in {} |-> 0],
                     depth |-> chain[self].depth + 1]]

\* Mutant of lookup_variable: the parent chain is not walked.
lookup_variable_own(chain, self, name) ==
    IF name \in DOMAIN chain[self].variables
    THEN Some(chain[self].variables[name])
    ELSE None

\* One call of lookup_variable, on the context at.self: the context's own
\* map answers, or the call goes on to the parent, or there is no parent.
LookupCall(chain, name, at) ==
    IF at.done THEN at
    ELSE IF name \in DOMAIN chain[at.self].variables
         THEN [done |-> TRUE, self |-> at.self,
               result |-> Some(chain[at.self].variables[name])]
         ELSE IF chain[at.self].parent.some
              THEN [done |-> FALSE, self |-> chain[at.self].parent.val, result |-> None]
              ELSE [done |-> TRUE, self |-> at.self, result |-> None]

\* n calls of lookup_variable, each made by the one before.
RECURSIVE LookupCalls(_, _, _, _)
LookupCalls(chain, name, at, n) ==
    IF at.done THEN at
    ELSE IF n <= 1 THEN LookupCall(chain, name, at)
    ELSE LookupCalls(chain, name, LookupCalls(chain, name, at, n \div 2), n - (n \div 2))

\* LocalContext::lookup_variable on the context at position self of chain:
\* the recursion ends within as many calls as there are contexts.
lookup_variable(chain, self, name) ==
    LookupCalls(chain, name, [done |-> FALSE, self |-> self, result |-> None],
                Len(chain)).result

(***************************************************************************)
(* State                                                                   *)
(***************************************************************************)

VARIABLES
    am_phase,      \* SpecAssetMap: "parent", "child", "committed"
    am_parent,     \* the parent AssetMap (self of commit_other)
    am_child,      \* the child AssetMap (other of commit_other)
    am_direct,     \* the parent with the child's transfers applied directly
    am_before,     \* the parent as it was before commit_other
    am_count,      \* add_transfer calls made in the current phase
    am_overflow,   \* some add_transfer of the child's sequence overflowed
    am_result,     \* "none", "Ok", "ArithmeticOverflow": commit_other's result
    phase,         \* Spec: "idle", "running", "done"
    op,            \* the top-level operation: execute_transaction, initialize_contract
    scopes,        \* the stack of GlobalContexts, root first
    committed,     \* the database's content outside every save point
    startDb,       \* committed, as it was when the operation started
    sp,            \* per scope id: unopened, open, committed, rolled_back, abandoned
    spCalls,       \* per scope id: commit() and roll_back() calls made on its save point
    spParent,      \* per scope id: the id of the scope it was nested from
    logged,        \* per scope id and (principal, asset): sum of the amounts logged in it
    loggedKeys,    \* per scope id: the (principal, asset) pairs logged in it
    nextId,        \* id of the next scope to open
    steps,         \* evaluator steps taken in this operation
    result,        \* what the top-level operation returned
    dropLeaks,     \* what dropping an unresolved save point does in this build
    opArgs,        \* the arguments of the top-level operation
    last,          \* the call that has just disposed of a result, with its before and after
    call_stack,    \* SpecCallStack: the CallStack, its stack and its tracked set
    cs_pending,    \* the (identifier, flag) of the inserts not yet removed, while balanced
    cs_balanced,   \* every remove so far named the last pending insert, with its flag
    cs_last,       \* the CallStack call that has just returned, with the CallStack before it
    lc_chain,      \* SpecLocalContext: the live LocalContexts, the root first
    lc_last,       \* the LocalContext call that has just returned
    at_map,        \* SpecAddTransfer: the AssetMap add_transfer is called on
    at_last        \* the add_transfer call that has just returned, with the map before it

am_vars == <<am_phase, am_parent, am_child, am_direct, am_before, am_count,
             am_overflow, am_result>>

env_vars == <<dropLeaks, phase, op, scopes, committed, startDb, sp, spCalls, spParent, logged,
              loggedKeys, nextId, steps, result, opArgs, last>>

cs_vars == <<call_stack, cs_pending, cs_balanced, cs_last>>

lc_vars == <<lc_chain, lc_last>>

at_vars == <<at_map, at_last>>

vars == <<am_vars, env_vars, cs_vars, lc_vars, at_vars>>

NoArgs == [contract_name |-> "none", tx_name |-> "none", args_atoms |-> TRUE]

NoResult == [ok |-> FALSE, val |-> "none", err |-> "none", asset_map |-> AssetMapNew]

NoEvent ==
    [op |-> "none", id |-> 0, opened |-> FALSE, input |-> Err("none"),
     ret |-> Err("none"), outcome |-> "none", calls |-> 0,
     self_map |-> AssetMapNew, self_db |-> DbEmpty, db0 |-> DbEmpty,
     parent_map_before |-> AssetMapNew, parent_map_after |-> AssetMapNew,
     parent_db_after |-> DbEmpty, depth |-> 0]

\* What every top-level operation starts from: OwnedEnvironment::new has
\* opened the root save point, nothing is logged, no nested scope exists.
FreshGhost ==
    /\ spCalls' = [i \in ScopeIds |-> 0]
    /\ spParent' = [i \in ScopeIds |-> 0]
    /\ logged' = [i \in ScopeIds |-> [e \in Principals \X Assets |-> 0]]
    /\ loggedKeys' = [i \in ScopeIds |-> {}]
    /\ steps' = 0
    /\ startDb' = committed

EnvInit ==
    /\ phase = "idle"
    /\ op = "none"
    /\ scopes = <<>>
    /\ committed = DbEmpty
    /\ startDb = DbEmpty
    /\ sp = [i \in ScopeIds |-> "unopened"]
    /\ spCalls = [i \in ScopeIds |-> 0]
    /\ spParent = [i \in ScopeIds |-> 0]
    /\ logged = [i \in ScopeIds |-> [e \in Principals \X Assets |-> 0]]
    /\ loggedKeys = [i \in ScopeIds |-> {}]
    /\ nextId = 1
    /\ steps = 0
    /\ result = NoResult
    /\ opArgs = NoArgs
    /\ last = NoEvent

AMInit ==
    /\ am_phase = "parent"
    /\ am_parent = AssetMapNew
    /\ am_child = AssetMapNew
    /\ am_direct = AssetMapNew
    /\ am_before = AssetMapNew
    /\ am_count = 0
    /\ am_overflow = FALSE
    /\ am_result = "none"

\* The CallStack and the LocalContext as constructed.
NoCall ==
    [op |-> "none", function |-> "none", flag |-> FALSE, ret |-> Ok("Unit"),
     before |-> CallStackNew]

CSInit ==
    /\ call_stack = CallStackNew
    /\ cs_pending = <<>>
    /\ cs_balanced = TRUE
    /\ cs_last = NoCall

NoLookup ==
    [op |-> "none", self |-> 0, ok |-> TRUE, err |-> "none", name |-> "none",
     result |-> None]

LCInit ==
    /\ lc_chain = <<LocalContextNew>>
    /\ lc_last = NoLookup

\* AssetMap::new, and no add_transfer call made on it yet.
NoTransfer ==
    [op |-> "none", principal |-> "none", asset |-> "none", amount |-> 0,
     ret |-> Ok("Unit"), before |-> AssetMapNew]

ATInit ==
    /\ at_map = AssetMapNew
    /\ at_last = NoTransfer

\* add_transfer on the map that will be the parent.
AMAddParent(p, a, amt) ==
    /\ am_phase = "parent"
    /\ am_count < MaxParentTransfers
    /\ am_parent' = add_transfer(am_parent, p, a, amt).map
    /\ am_direct' = am_parent'
    /\ am_count' = am_count + 1
    /\ UNCHANGED <<am_phase, am_child, am_before, am_overflow, am_result>>
    /\ UNCHANGED <<env_vars, cs_vars, lc_vars, at_vars>>

\* AssetMap::new for the child.
AMStartChild ==
    /\ am_phase = "parent"
    /\ am_phase' = "child"
    /\ am_count' = 0
    /\ UNCHANGED <<am_parent, am_child, am_direct, am_before, am_overflow, am_result>>
    /\ UNCHANGED <<env_vars, cs_vars, lc_vars, at_vars>>

\* The same add_transfer call on the fresh child and, directly, on a copy
\* of the parent.
AMAddChild(p, a, amt) ==
    /\ am_phase = "child"
    /\ am_count < MaxTransfers
    /\ LET c == add_transfer(am_child, p, a, amt)
           d == add_transfer(am_direct, p, a, amt)
       IN /\ am_child' = c.map
          /\ am_direct' = d.map
          /\ am_overflow' = (am_overflow \/ ~c.ok \/ ~d.ok)
    /\ am_count' = am_count + 1
    /\ UNCHANGED <<am_phase, am_parent, am_before, am_result>>
    /\ UNCHANGED <<env_vars, cs_vars, lc_vars, at_vars>>

\* parent.commit_other(child)
AMCommit ==
    /\ am_phase = "child"
    /\ LET r == commit_other(am_parent, am_child)
       IN /\ am_parent' = r.map
          /\ am_result' = IF r.ok THEN "Ok" ELSE "ArithmeticOverflow"
    /\ am_before' = am_parent
    /\ am_phase' = "committed"
    /\ UNCHANGED <<am_child, am_direct, am_count, am_overflow>>
    /\ UNCHANGED <<env_vars, cs_vars, lc_vars, at_vars>>

AMNext ==
    \/ \E p \in Principals, a \in Assets, amt \in ParentAmounts : AMAddParent(p, a, amt)
    \/ AMStartChild
    \/ \E p \in Principals, a \in Assets, amt \in Amounts : AMAddChild(p, a, amt)
    \/ AMCommit

\* SpecAssetMap opens no save point: the scope stack stays as constructed.
AMSpecInit == AMInit /\ EnvInit /\ dropLeaks = FALSE /\ CSInit /\ LCInit /\ ATInit

SpecAssetMap == AMSpecInit /\ [][AMNext]_vars

(***************************************************************************)
(* Environment and OwnedEnvironment                                        *)
(***************************************************************************)

Top == scopes[Len(scopes)]

\* The evaluator is running code in the innermost scope and is not
\* unwinding with an error.
Evaluating == phase = "running" /\ Len(scopes) >= 2 /\ Top.failed = "none"

SetTop(scope) == [scopes EXCEPT ![Len(scopes)] = scope]

\* The results the code running in the innermost scope can end with: the
\* error it is unwinding with, or else any value or a runtime error.
Outcomes ==
    IF Len(scopes) < 2 THEN {}
    ELSE IF Top.failed # "none"
         THEN {Err(Top.failed)}
         ELSE {Ok(v) : v \in Values} \cup {Err("RuntimeError")}

Event(name, self, parent, input, d) ==
    [op |-> name, id |-> self.id, opened |-> TRUE, input |-> input, ret |-> d.ret,
     outcome |-> d.outcome, calls |-> d.calls, self_map |-> self.asset_map,
     self_db |-> self.db, db0 |-> self.db0,
     parent_map_before |-> parent.asset_map, parent_map_after |-> d.parent_map,
     parent_db_after |-> d.parent_db, depth |-> Len(scopes)]

\* Mutant of execute_contract_checks: the is_public test is missing.
execute_contract_checks_no_public(db, contract_name, tx_name, args_atoms) ==
    IF contract_name \notin db.contracts THEN "NoSuchContract"
    ELSE IF ~lookup_function(tx_name).some THEN "UndefinedFunction"
    ELSE IF ~args_atoms THEN "InterpreterError"
    ELSE "none"

\* Mutant of execute_contract_checks: the arguments are coerced without
\* rejecting the ones that are no atom literal.
execute_contract_checks_no_atoms(db, contract_name, tx_name, args_atoms) ==
    IF contract_name \notin db.contracts THEN "NoSuchContract"
    ELSE IF ~lookup_function(tx_name).some THEN "UndefinedFunction"
    ELSE IF ~lookup_function(tx_name).func.is_public THEN "NonPublicFunction"
    ELSE "none"

\* Environment::execute_contract before execute_function_as_transaction:
\* the error the call is rejected with, "none" when it goes through.
execute_contract_checks(db, contract_name, tx_name, args_atoms) ==
    IF contract_name \notin db.contracts THEN "NoSuchContract"
    ELSE IF ~lookup_function(tx_name).some THEN "UndefinedFunction"
    ELSE IF ~lookup_function(tx_name).func.is_public THEN "NonPublicFunction"
    ELSE IF ~args_atoms THEN "InterpreterError"
    ELSE "none"

\* OwnedEnvironment::execute_transaction down to the nest of
\* execute_function_as_transaction: OwnedEnvironment::new opens the root
\* scope, execute_contract resolves the contract and the function, checks
\* that it is public and that every argument is an atom; a rejected call
\* returns through `?` and the root scope is dropped.
ExecuteTransaction(contract_name, tx_name, args_atoms) ==
    /\ phase \in {"idle", "done"}
    /\ FreshGhost
    /\ op' = "execute_transaction"
    /\ opArgs' = [contract_name |-> contract_name, tx_name |-> tx_name,
                  args_atoms |-> args_atoms]
    /\ LET root == GlobalContextNew(committed)
           found == lookup_function(tx_name)
           rejected == execute_contract_checks(root.db, contract_name, tx_name,
                                               args_atoms)
           nested == IF found.func.is_read_only
                     THEN nest_read_only(root, 1, "execute_function_as_transaction")
                     ELSE nest(root, 1, "execute_function_as_transaction")
       IN IF rejected # "none"
          THEN /\ phase' = "done"
               /\ scopes' = <<>>
               /\ sp' = [i \in ScopeIds |-> IF i = 0 THEN "abandoned" ELSE "unopened"]
               /\ nextId' = 1
               /\ result' = [ok |-> FALSE, val |-> "none", err |-> rejected,
                             asset_map |-> AssetMapNew]
               /\ last' = [NoEvent EXCEPT !.op = "execute_contract",
                                          !.ret = Err(rejected),
                                          !.parent_map_before = root.asset_map,
                                          !.parent_map_after = root.asset_map,
                                          !.db0 = root.db,
                                          !.parent_db_after = root.db]
          ELSE /\ phase' = "running"
               /\ scopes' = <<root, [nested EXCEPT
                                  !.make_read_only = found.func.is_read_only]>>
               /\ sp' = [i \in ScopeIds |-> IF i \in {0, 1} THEN "open" ELSE "unopened"]
               /\ nextId' = 2
               /\ result' = NoResult
               /\ last' = NoEvent
    /\ UNCHANGED <<dropLeaks, committed, am_vars, cs_vars, lc_vars, at_vars>>

\* OwnedEnvironment::initialize_contract down to the nest of
\* Environment::initialize_contract.
InitializeContract(contract_name) ==
    /\ phase \in {"idle", "done"}
    /\ FreshGhost
    /\ op' = "initialize_contract"
    /\ opArgs' = [NoArgs EXCEPT !.contract_name = contract_name]
    /\ phase' = "running"
    /\ LET root == GlobalContextNew(committed)
       IN scopes' = <<root, nest(root, 1, "initialize_contract")>>
    /\ sp' = [i \in ScopeIds |-> IF i \in {0, 1} THEN "open" ELSE "unopened"]
    /\ nextId' = 2
    /\ result' = NoResult
    /\ last' = NoEvent
    /\ UNCHANGED <<dropLeaks, committed, am_vars, cs_vars, lc_vars, at_vars>>

\* The evaluator writes to the database of the innermost scope.
DbWrite(k, v) ==
    /\ Evaluating
    /\ steps < MaxSteps
    /\ steps' = steps + 1
    /\ scopes' = SetTop([Top EXCEPT !.db.data[k] = v])
    /\ last' = NoEvent
    /\ UNCHANGED <<dropLeaks, phase, op, committed, startDb, sp, spCalls, spParent, logged,
                   loggedKeys, nextId, result, opArgs, am_vars, cs_vars, lc_vars, at_vars>>

\* Mutant of LogAssetTransfer: the transfer is logged in the AssetMap of the
\* scope the innermost one was nested from as well.
LogAssetTransfer_in_parent(sender, asset, transfered) ==
    /\ Evaluating
    /\ steps < MaxSteps
    /\ steps' = steps + 1
    /\ LET r == add_transfer(Top.asset_map, sender, asset, transfered)
           n == Len(scopes)
           p == add_transfer(scopes[n - 1].asset_map, sender, asset, transfered)
       IN IF r.ok
          THEN /\ scopes' = [scopes EXCEPT ![n].asset_map = r.map,
                                           ![n - 1].asset_map = p.map]
               /\ logged' = [logged EXCEPT ![Top.id][<<sender, asset>>] = @ + transfered]
               /\ loggedKeys' = [loggedKeys EXCEPT ![Top.id] = @ \cup {<<sender, asset>>}]
          ELSE /\ scopes' = SetTop([Top EXCEPT !.failed = "ArithmeticOverflow"])
               /\ UNCHANGED <<logged, loggedKeys>>
    /\ last' = NoEvent
    /\ UNCHANGED <<dropLeaks, phase, op, committed, startDb, sp, spCalls, spParent, nextId,
                   result, opArgs, am_vars, cs_vars, lc_vars, at_vars>>

\* GlobalContext::log_asset_transfer on the innermost scope; an overflow is
\* an error the evaluator unwinds with.
LogAssetTransfer(sender, asset, transfered) ==
    /\ Evaluating
    /\ steps < MaxSteps
    /\ steps' = steps + 1
    /\ LET r == add_transfer(Top.asset_map, sender, asset, transfered)
       IN IF r.ok
          THEN /\ scopes' = SetTop([Top EXCEPT !.asset_map = r.map])
               /\ logged' = [logged EXCEPT ![Top.id][<<sender, asset>>] = @ + transfered]
               /\ loggedKeys' = [loggedKeys EXCEPT ![Top.id] = @ \cup {<<sender, asset>>}]
          ELSE /\ scopes' = SetTop([Top EXCEPT !.failed = "ArithmeticOverflow"])
               /\ UNCHANGED <<logged, loggedKeys>>
    /\ last' = NoEvent
    /\ UNCHANGED <<dropLeaks, phase, op, committed, startDb, sp, spCalls, spParent, nextId,
                   result, opArgs, am_vars, cs_vars, lc_vars, at_vars>>

\* Environment::execute_function_as_transaction, up to execute_apply: the
\* evaluator calls a function, which runs in a nested scope.
CallFunction(fname) ==
    /\ Evaluating
    /\ nextId <= MaxScopes
    /\ LET function == DefinedFunctions[fname]
           make_read_only == function.is_read_only
           nested_context ==
               IF make_read_only
               THEN nest_read_only(Top, nextId, "execute_function_as_transaction")
               ELSE nest(Top, nextId, "execute_function_as_transaction")
       IN scopes' = Append(scopes, [nested_context EXCEPT
                                        !.make_read_only = make_read_only])
    /\ sp' = [sp EXCEPT ![nextId] = "open"]
    /\ spParent' = [spParent EXCEPT ![nextId] = Top.id]
    /\ nextId' = nextId + 1
    /\ last' = NoEvent
    /\ UNCHANGED <<dropLeaks, phase, op, committed, startDb, spCalls, logged, loggedKeys,
                   steps, result, opArgs, am_vars, cs_vars, lc_vars, at_vars>>

\* Environment::eval_read_only, up to eval: a program that does not parse or
\* is empty, or a contract the database does not hold, returns the error
\* before any save point is opened.
EvalReadOnly(parse_ok, contract_name) ==
    /\ Evaluating
    /\ LET rejected == IF ~parse_ok THEN "ParseError"
                       ELSE IF contract_name \notin Top.db.contracts
                            THEN "NoSuchContract"
                            ELSE "none"
       IN IF rejected # "none"
          THEN /\ steps < MaxSteps
               /\ steps' = steps + 1
               /\ scopes' = SetTop([Top EXCEPT !.failed = rejected])
               /\ last' = [NoEvent EXCEPT !.op = "eval_read_only",
                                          !.id = Top.id,
                                          !.ret = Err(rejected),
                                          !.parent_map_before = Top.asset_map,
                                          !.parent_map_after = Top.asset_map,
                                          !.db0 = Top.db,
                                          !.parent_db_after = Top.db,
                                          !.depth = Len(scopes)]
               /\ UNCHANGED <<sp, spParent, nextId>>
          ELSE /\ nextId <= MaxScopes
               /\ scopes' = Append(scopes, nest(Top, nextId, "eval_read_only"))
               /\ sp' = [sp EXCEPT ![nextId] = "open"]
               /\ spParent' = [spParent EXCEPT ![nextId] = Top.id]
               /\ nextId' = nextId + 1
               /\ last' = NoEvent
               /\ UNCHANGED steps
    /\ UNCHANGED <<dropLeaks, phase, op, committed, startDb, spCalls, logged, loggedKeys,
                   result, opArgs, am_vars, cs_vars, lc_vars, at_vars>>

\* A nested call has disposed of its scope (d: what it returned, what became
\* of its save point, the parent's AssetMap and database content after it).
\* Inside another nested scope the evaluator goes on there, unwinding if the
\* call failed.  Under the root scope the result goes back through
\* execute_contract to OwnedEnvironment::execute_transaction or
\* ::initialize_contract: an error returns through `?` and the root scope is
\* dropped; otherwise OwnedEnvironment::commit commits the root scope and
\* hands out its AssetMap.
Deliver(self, d, event) ==
    LET n == Len(scopes)
        parent == [scopes[n - 1] EXCEPT
                     !.asset_map = d.parent_map,
                     !.db = d.parent_db,
                     !.failed = IF d.ret.ok THEN "none" ELSE d.ret.err]
    IN /\ last' = event
       /\ spCalls' = [spCalls EXCEPT ![self.id] = @ + d.calls,
                                     ![0] = IF n = 2 /\ d.ret.ok THEN @ + 1 ELSE @]
       /\ IF n > 2
          THEN /\ scopes' = Append(SubSeq(scopes, 1, n - 2), parent)
               /\ sp' = [sp EXCEPT ![self.id] = d.outcome]
               /\ UNCHANGED <<phase, committed, result>>
          ELSE /\ scopes' = <<>>
               /\ phase' = "done"
               /\ IF d.ret.ok
                  THEN LET c == commit(parent, AssetMapNew, committed, dropLeaks)
                       IN /\ committed' = c.parent_db
                          /\ sp' = [sp EXCEPT ![self.id] = d.outcome, ![0] = c.outcome]
                          /\ result' = [ok |-> TRUE, val |-> d.ret.val, err |-> "none",
                                        asset_map |-> c.out_map]
                  ELSE /\ committed' = DropSavePoint(committed, parent.db, dropLeaks)
                       /\ sp' = [sp EXCEPT ![self.id] = d.outcome, ![0] = "abandoned"]
                       /\ result' = [ok |-> FALSE, val |-> "none", err |-> d.ret.err,
                                     asset_map |-> AssetMapNew]
       /\ UNCHANGED <<dropLeaks, op, startDb, spParent, logged, loggedKeys, nextId,
                      steps, opArgs, am_vars, cs_vars, lc_vars, at_vars>>

\* Mutant of FunctionReturn: the result of a read-only function goes to
\* handle_tx_result like any other.
FunctionReturn_always_handle(res) ==
    /\ phase = "running"
    /\ Len(scopes) >= 2
    /\ Top.owner = "execute_function_as_transaction"
    /\ LET self == Top
           parent == scopes[Len(scopes) - 1]
           d == handle_tx_result(self, parent.asset_map, parent.db, res, dropLeaks)
       IN Deliver(self, d,
                  Event(IF self.make_read_only THEN "read_only_function"
                        ELSE "handle_tx_result", self, parent, res, d))

\* Environment::execute_function_as_transaction, from the return of
\* execute_apply: a read-only function's save point is rolled back and its
\* result returned as it is; any other result goes to handle_tx_result.
FunctionReturn(res) ==
    /\ phase = "running"
    /\ Len(scopes) >= 2
    /\ Top.owner = "execute_function_as_transaction"
    /\ LET self == Top
           parent == scopes[Len(scopes) - 1]
           d == IF self.make_read_only
                THEN LET r == roll_back(self, parent.asset_map, parent.db)
                     IN [ret |-> res, outcome |-> r.outcome, calls |-> r.calls,
                         parent_map |-> r.parent_map, parent_db |-> r.parent_db]
                ELSE handle_tx_result(self, parent.asset_map, parent.db, res, dropLeaks)
       IN Deliver(self, d,
                  Event(IF self.make_read_only THEN "read_only_function"
                        ELSE "handle_tx_result", self, parent, res, d))

\* Mutant of EvalReadOnlyReturn: a successful evaluation is committed.
EvalReadOnlyReturn_commit(res) ==
    /\ phase = "running"
    /\ Len(scopes) >= 2
    /\ Top.owner = "eval_read_only"
    /\ LET self == Top
           parent == scopes[Len(scopes) - 1]
           d == IF res.ok
                THEN LET c == commit(self, parent.asset_map, parent.db, dropLeaks)
                     IN [ret |-> IF c.ok THEN res ELSE Err(c.err), outcome |-> c.outcome,
                         calls |-> c.calls, parent_map |-> c.parent_map,
                         parent_db |-> c.parent_db]
                ELSE LET r == roll_back(self, parent.asset_map, parent.db)
                     IN [ret |-> res, outcome |-> r.outcome, calls |-> r.calls,
                         parent_map |-> r.parent_map, parent_db |-> r.parent_db]
       IN Deliver(self, d, Event("eval_read_only", self, parent, res, d))

\* Environment::eval_read_only, from the return of eval: the save point is
\* rolled back whatever the result, and the result returned.
EvalReadOnlyReturn(res) ==
    /\ phase = "running"
    /\ Len(scopes) >= 2
    /\ Top.owner = "eval_read_only"
    /\ LET self == Top
           parent == scopes[Len(scopes) - 1]
           r == roll_back(self, parent.asset_map, parent.db)
           d == [ret |-> res, outcome |-> r.outcome, calls |-> r.calls,
                 parent_map |-> r.parent_map, parent_db |-> r.parent_db]
       IN Deliver(self, d, Event("eval_read_only", self, parent, res, d))

\* Mutant of InitializeReturn: a failed initialization commits the save
\* point instead of rolling it back.
InitializeReturn_commit_on_error(initialized) ==
    /\ phase = "running"
    /\ Len(scopes) >= 2
    /\ Top.owner = "initialize_contract"
    /\ initialized \in {Top.failed = "none", FALSE}
    /\ LET parent == scopes[Len(scopes) - 1]
           res == IF initialized THEN Ok("Contract")
                  ELSE Err(IF Top.failed # "none" THEN Top.failed ELSE "RuntimeError")
           self == IF initialized
                   THEN [Top EXCEPT !.db.contracts = @ \cup {opArgs.contract_name}]
                   ELSE Top
           c == commit(self, parent.asset_map, parent.db, dropLeaks)
           d == [ret |-> IF ~initialized THEN res
                         ELSE IF c.ok THEN Ok("Unit") ELSE Err(c.err),
                 outcome |-> c.outcome, calls |-> c.calls,
                 parent_map |-> c.parent_map, parent_db |-> c.parent_db]
       IN Deliver(self, d, Event("initialize_contract", self, parent, res, d))

\* Environment::initialize_contract, from the return of Contract::initialize:
\* Ok inserts the contract in the nested save point and commits the scope,
\* Err rolls the save point back.
InitializeReturn(initialized) ==
    /\ phase = "running"
    /\ Len(scopes) >= 2
    /\ Top.owner = "initialize_contract"
    /\ initialized \in {Top.failed = "none", FALSE}
    /\ LET parent == scopes[Len(scopes) - 1]
           res == IF initialized THEN Ok("Contract")
                  ELSE Err(IF Top.failed # "none" THEN Top.failed ELSE "RuntimeError")
           self == IF initialized
                   THEN [Top EXCEPT !.db.contracts = @ \cup {opArgs.contract_name}]
                   ELSE Top
           d == IF initialized
                THEN LET c == commit(self, parent.asset_map, parent.db, dropLeaks)
                     IN [ret |-> IF c.ok THEN Ok("Unit") ELSE Err(c.err),
                         outcome |-> c.outcome, calls |-> c.calls,
                         parent_map |-> c.parent_map, parent_db |-> c.parent_db]
                ELSE LET r == roll_back(self, parent.asset_map, parent.db)
                     IN [ret |-> res, outcome |-> r.outcome, calls |-> r.calls,
                         parent_map |-> r.parent_map, parent_db |-> r.parent_db]
       IN Deliver(self, d, Event("initialize_contract", self, parent, res, d))

Next ==
    \/ \E c \in ContractNames, f \in FunctionNames, atoms \in BOOLEAN :
          ExecuteTransaction(c, f, atoms)
    \/ \E c \in ContractNames : InitializeContract(c)
    \/ \E k \in DbKeys, v \in DbValues : DbWrite(k, v)
    \/ \E p \in Principals, a \in TxAssets, amt \in TxAmounts : LogAssetTransfer(p, a, amt)
    \/ \E f \in {"pay", "get"} : CallFunction(f)
    \/ \E ok \in BOOLEAN, c \in ContractNames : EvalReadOnly(ok, c)
    \/ \E res \in Outcomes : FunctionReturn(res)
    \/ \E res \in Outcomes : EvalReadOnlyReturn(res)
    \/ \E ok \in BOOLEAN : InitializeReturn(ok)

Init == AMInit /\ EnvInit /\ dropLeaks \in BOOLEAN /\ CSInit /\ LCInit /\ ATInit

Spec == Init /\ [][Next]_vars

(***************************************************************************)
(* CallStack: any sequence of insert and remove calls                      *)
(***************************************************************************)

\* The process has panicked in remove: no call follows.
Panicked == ~cs_last.ret.ok /\ cs_last.ret.err = "panic"

\* call_stack.insert(function, track)
CSInsert(function, track) ==
    /\ ~Panicked
    /\ depth(call_stack) < MaxCallDepth
    /\ call_stack' = insert(call_stack, function, track)
    /\ cs_pending' = IF cs_balanced THEN Append(cs_pending, <<function, track>>) ELSE <<>>
    /\ cs_last' = [op |-> "insert", function |-> function, flag |-> track,
                   ret |-> Ok("Unit"), before |-> call_stack]
    /\ UNCHANGED <<cs_balanced, am_vars, env_vars, lc_vars, at_vars>>

\* call_stack.remove(function, tracked)
CSRemove(function, tracked) ==
    /\ ~Panicked
    /\ LET r == remove(call_stack, function, tracked)
           paired == /\ cs_balanced
                     /\ Len(cs_pending) > 0
                     /\ cs_pending[Len(cs_pending)] = <<function, tracked>>
       IN /\ call_stack' = [stack |-> r.stack, set |-> r.set]
          /\ cs_last' = [op |-> "remove", function |-> function, flag |-> tracked,
                         ret |-> r.ret, before |-> call_stack]
          /\ cs_balanced' = paired
          /\ cs_pending' = IF paired THEN SubSeq(cs_pending, 1, Len(cs_pending) - 1)
                           ELSE <<>>
    /\ UNCHANGED <<am_vars, env_vars, lc_vars, at_vars>>

CSNext ==
    \/ \E f \in FunctionIdentifiers, track \in BOOLEAN : CSInsert(f, track)
    \/ \E f \in FunctionIdentifiers, tracked \in BOOLEAN : CSRemove(f, tracked)

CSSpecInit == AMSpecInit

SpecCallStack == CSSpecInit /\ [][CSNext]_vars

(***************************************************************************)
(* LocalContext: a chain of contexts, each extended from the one before    *)
(***************************************************************************)

Innermost == Len(lc_chain)

\* The evaluator binds a variable in the innermost context.
LCBind(name, value) ==
    /\ lc_chain[Innermost].depth <= MaxBindDepth
    /\ lc_chain' = [lc_chain EXCEPT ![Innermost].variables = MapInsert(@, name, value)]
    /\ lc_last' = NoLookup
    /\ UNCHANGED <<am_vars, env_vars, cs_vars, at_vars>>

\* extend() on the innermost context; the child, when there is one, is the
\* innermost context from then on.
LCExtend ==
    /\ LET r == extend(lc_chain, Innermost)
       IN /\ lc_chain' = IF r.ok THEN Append(lc_chain, r.child) ELSE lc_chain
          /\ lc_last' = [NoLookup EXCEPT !.op = "extend", !.self = Innermost,
                                         !.ok = r.ok, !.err = r.err]
    /\ UNCHANGED <<am_vars, env_vars, cs_vars, at_vars>>

\* lookup_variable(name) on the innermost context.
LCLookup(name) ==
    /\ lc_last' = [NoLookup EXCEPT !.op = "lookup", !.self = Innermost, !.name = name,
                                   !.result = lookup_variable(lc_chain, Innermost, name)]
    /\ UNCHANGED <<lc_chain, am_vars, env_vars, cs_vars, at_vars>>

LCNext ==
    \/ \E n \in BoundNames, v \in VariableValues : LCBind(n, v)
    \/ LCExtend
    \/ \E n \in VariableNames : LCLookup(n)

LCSpecInit == AMSpecInit

SpecLocalContext == LCSpecInit /\ [][LCNext]_vars

(***************************************************************************)
(* AssetMap::add_transfer: any sequence of calls on one map                *)
(***************************************************************************)

\* map.add_transfer(principal, asset, amount)
ATAddTransfer(principal, asset, amount) ==
    /\ LET r == add_transfer(at_map, principal, asset, amount)
       IN /\ at_map' = r.map
          /\ at_last' = [op |-> "add_transfer", principal |-> principal, asset |-> asset,
                         amount |-> amount,
                         ret |-> IF r.ok THEN Ok("Unit") ELSE Err("ArithmeticOverflow"),
                         before |-> at_map]
    /\ UNCHANGED <<am_vars, env_vars, cs_vars, lc_vars>>

ATNext == \E p \in Principals, a \in Assets, amt \in Amounts : ATAddTransfer(p, a, amt)

ATSpecInit == AMSpecInit

SpecAddTransfer == ATSpecInit /\ [][ATNext]_vars

(***************************************************************************)
(* C1: commit_other is atomic: when it fails with ArithmeticOverflow the   *)
(* parent map is exactly the map it was before the call.                   *)
(***************************************************************************)
C1_CommitOtherAtomic ==
    (am_phase = "committed" /\ am_result = "ArithmeticOverflow")
        => am_parent = am_before

\* A failed commit of a child that also holds an entry that would have
\* merged without overflow, under a principal the parent does not know.
C1_Witness ==
    /\ am_phase = "committed"
    /\ am_result = "ArithmeticOverflow"
    /\ \E e \in Entries(am_child) :
          /\ get_next_amount(am_before, e[1], e[2], am_child[e[1]][e[2]]).ok
          /\ e[1] \notin DOMAIN am_before

(***************************************************************************)
(* C2: for a sequence of add_transfer calls that overflows neither on the  *)
(* fresh child nor on the parent, committing the child into the parent     *)
(* succeeds and gives the map the direct application gives.                *)
(***************************************************************************)
C2_CommitEqualsDirect ==
    (am_phase = "committed" /\ ~am_overflow)
        => (am_result = "Ok" /\ am_parent = am_direct)

\* The child repeated a transfer for an entry the parent already held with
\* a non-zero amount, and the merge changed the parent.
C2_Witness ==
    /\ am_phase = "committed"
    /\ ~am_overflow
    /\ am_count = MaxTransfers
    /\ Cardinality(Entries(am_child)) = 1
    /\ \E e \in Entries(am_child) :
          /\ e \in Entries(am_before)
          /\ am_before[e[1]][e[2]] # 0
          /\ am_child[e[1]][e[2]] # 0
          /\ am_parent[e[1]][e[2]] = am_before[e[1]][e[2]] + am_child[e[1]][e[2]]

(***************************************************************************)
(* Claims about the scope stack (checked under Spec)                       *)
(***************************************************************************)

\* The amount a map holds for an entry, 0 when it holds none.
AmountOf(map, e) ==
    IF e[1] \in DOMAIN map /\ e[2] \in DOMAIN map[e[1]] THEN map[e[1]][e[2]] ELSE 0

\* Merging child into parent leaves the i128 range on some entry.
MergeOverflows(parent, child) ==
    \E e \in Entries(child) :
        \/ AmountOf(parent, e) + AmountOf(child, e) > I128_MAX
        \/ AmountOf(parent, e) + AmountOf(child, e) < I128_MIN

\* after is before with every entry of child added to it.
IsMerge(before, child, after) ==
    /\ Entries(after) = Entries(before) \cup Entries(child)
    /\ \A e \in Entries(after) : AmountOf(after, e) = AmountOf(before, e) + AmountOf(child, e)

\* The scope the call recorded in last returned to, when one is left.
CallerIs(map, db) ==
    /\ Len(scopes) >= 1
    /\ Top.asset_map = map
    /\ Top.db = db

\* The operation has returned and last records the return of the function
\* that execute_transaction ran.
TransactionReturned ==
    /\ phase = "done"
    /\ op = "execute_transaction"
    /\ last.op \in {"handle_tx_result", "read_only_function"}

(***************************************************************************)
(* C3: when the public function run by execute_transaction returns         *)
(* Response{committed: false}, execute_transaction returns Ok with that    *)
(* response, the database is as it was before the call, and the AssetMap   *)
(* returned is empty.                                                      *)
(***************************************************************************)
C3_AbortedTransaction ==
    (TransactionReturned /\ last.input = Ok("Response(false)"))
        => /\ result.ok
           /\ result.val = "Response(false)"
           /\ committed = startDb
           /\ result.asset_map = AssetMapNew

\* An aborted call that had logged a transfer and written to the database.
C3_Witness ==
    /\ TransactionReturned
    /\ last.op = "handle_tx_result"
    /\ last.input = Ok("Response(false)")
    /\ last.self_map # AssetMapNew
    /\ last.self_db # last.db0

(***************************************************************************)
(* C4: the AssetMap execute_transaction returns holds, for each            *)
(* (principal, asset), exactly the sum of the amounts logged in scopes     *)
(* that committed and whose enclosing scopes up to the root all committed; *)
(* nothing logged in a scope that rolled back, or below one, is in it.     *)
(***************************************************************************)
RECURSIVE CommittedChain(_)
CommittedChain(id) ==
    /\ sp[id] = "committed"
    /\ (id = 0 \/ CommittedChain(spParent[id]))

CommittedIds == {i \in ScopeIds : CommittedChain(i)}

RECURSIVE SumLogged(_, _)
SumLogged(ids, e) ==
    IF ids = {} THEN 0
    ELSE LET i == CHOOSE x \in ids : TRUE
         IN logged[i][e] + SumLogged(ids \ {i}, e)

C4_ReturnedMapIsCommittedSum ==
    (phase = "done" /\ op = "execute_transaction" /\ result.ok)
        => /\ Entries(result.asset_map) = UNION {loggedKeys[i] : i \in CommittedIds}
           /\ \A e \in Entries(result.asset_map) :
                 AmountOf(result.asset_map, e) = SumLogged(CommittedIds, e)

\* A transaction that returned a map with an entry, after a nested call
\* that had logged a transfer and committed was discarded with the scope
\* it was made from.
C4_Witness ==
    /\ phase = "done"
    /\ op = "execute_transaction"
    /\ result.ok
    /\ \E i, j \in 1 .. MaxScopes :
          /\ spParent[j] = i
          /\ sp[j] = "committed"
          /\ sp[i] = "rolled_back"
          /\ loggedKeys[j] # {}
          /\ loggedKeys[j] \cap Entries(result.asset_map) = {}

(***************************************************************************)
(* C5: eval_read_only never mutates state: whether parsing, the contract   *)
(* lookup or the evaluation succeeds or fails, the caller's database       *)
(* content and AssetMap are what they were before the call, and the save   *)
(* point it opened is rolled back, by one roll_back and no commit.         *)
(***************************************************************************)
C5_EvalReadOnlyFrame ==
    (last.op = "eval_read_only")
        => /\ CallerIs(last.parent_map_before, last.db0)
           /\ last.opened => (sp[last.id] = "rolled_back" /\ spCalls[last.id] = 1)

\* An evaluation that succeeded after writing to the database and logging
\* a transfer.
C5_Witness ==
    /\ last.op = "eval_read_only"
    /\ last.opened
    /\ last.input.ok
    /\ last.self_db # last.db0
    /\ last.self_map # AssetMapNew

(***************************************************************************)
(* C6: every save point opened by nest() or nest_read_only() is resolved   *)
(* by exactly one commit or roll_back before the operation that opened it  *)
(* returns, on every exit path.                                            *)
(***************************************************************************)
C6_EverySavePointResolvedOnce ==
    \A i \in 1 .. MaxScopes :
        (sp[i] \notin {"unopened", "open"})
            => (sp[i] \in {"committed", "rolled_back"} /\ spCalls[i] = 1)

(***************************************************************************)
(* C7: handle_tx_result given Ok(v) with v no Response fails with          *)
(* ContractMustReturnBoolean and rolls the scope's save point back: the    *)
(* scope's writes are discarded and the parent AssetMap is unchanged.      *)
(***************************************************************************)
C7_NonResponseRollsBack ==
    (last.op = "handle_tx_result" /\ last.input.ok /\ ~is_response(last.input.val))
        => /\ last.ret = Err("ContractMustReturnBoolean")
           /\ sp[last.id] = "rolled_back"
           /\ last.parent_db_after = last.db0
           /\ last.parent_map_after = last.parent_map_before

(***************************************************************************)
(* C8: when the commit of a nested scope fails because merging its         *)
(* AssetMap into the parent's overflows, the save point is not committed,  *)
(* the parent AssetMap is unchanged, and ArithmeticOverflow goes to the    *)
(* caller, so that the enclosing scope does not commit either.             *)
(***************************************************************************)
CommitAttempted ==
    \/ last.op = "handle_tx_result" /\ last.input = Ok("Response(true)")
    \/ last.op = "initialize_contract" /\ last.input.ok

C8_OverflowingCommit ==
    /\ \A i \in 1 .. MaxScopes :
          (sp[i] = "abandoned") => (sp[spParent[i]] # "committed")
    /\ (CommitAttempted /\ MergeOverflows(last.parent_map_before, last.self_map))
        => /\ sp[last.id] # "committed"
           /\ spCalls[last.id] = 0
           /\ last.parent_map_after = last.parent_map_before
           /\ last.ret = Err("ArithmeticOverflow")
           /\ IF phase = "running"
              THEN Top.failed = "ArithmeticOverflow"
                   /\ Top.asset_map = last.parent_map_before
              ELSE ~result.ok /\ result.err = "ArithmeticOverflow" /\ sp[0] # "committed"

\* A function that returned Response{committed: true} after logging a
\* transfer that does not fit on top of what its caller had logged.
C8_Witness ==
    /\ last.op = "handle_tx_result"
    /\ last.input = Ok("Response(true)")
    /\ MergeOverflows(last.parent_map_before, last.self_map)
    /\ phase = "running"

(***************************************************************************)
(* C9 as stated: handle_tx_result commits and merges on                    *)
(* Response{committed: true}, rolls back and merges nothing on             *)
(* Response{committed: false}, returns the same Response as Ok in both     *)
(* cases, and on Err(e) rolls back and returns Err(e).                     *)
(***************************************************************************)
C9_Original ==
    (last.op = "handle_tx_result")
        => /\ (last.input = Ok("Response(true)"))
                => /\ sp[last.id] = "committed"
                   /\ IsMerge(last.parent_map_before, last.self_map, last.parent_map_after)
                   /\ last.ret = last.input
           /\ (last.input = Ok("Response(false)"))
                => /\ sp[last.id] = "rolled_back"
                   /\ last.parent_map_after = last.parent_map_before
                   /\ last.ret = last.input
           /\ (~last.input.ok)
                => /\ sp[last.id] = "rolled_back"
                   /\ last.parent_map_after = last.parent_map_before
                   /\ last.ret = last.input

(***************************************************************************)
(* C9 amended: as stated, except that on Response{committed: true} the     *)
(* commit, the merge and the Ok return happen when the merge does not      *)
(* overflow; when it overflows handle_tx_result returns                    *)
(* Err(ArithmeticOverflow), merges nothing and does not commit.            *)
(***************************************************************************)
C9_HandleTxResult ==
    (last.op = "handle_tx_result")
        => /\ (last.input = Ok("Response(true)")
                 /\ ~MergeOverflows(last.parent_map_before, last.self_map))
                => /\ sp[last.id] = "committed"
                   /\ spCalls[last.id] = 1
                   /\ IsMerge(last.parent_map_before, last.self_map, last.parent_map_after)
                   /\ last.parent_db_after = last.self_db
                   /\ last.ret = last.input
           /\ (last.input = Ok("Response(true)")
                 /\ MergeOverflows(last.parent_map_before, last.self_map))
                => /\ sp[last.id] # "committed"
                   /\ last.parent_map_after = last.parent_map_before
                   /\ last.ret = Err("ArithmeticOverflow")
           /\ (last.input = Ok("Response(false)"))
                => /\ sp[last.id] = "rolled_back"
                   /\ spCalls[last.id] = 1
                   /\ last.parent_map_after = last.parent_map_before
                   /\ last.parent_db_after = last.db0
                   /\ last.ret = last.input
           /\ (~last.input.ok)
                => /\ sp[last.id] = "rolled_back"
                   /\ spCalls[last.id] = 1
                   /\ last.parent_map_after = last.parent_map_before
                   /\ last.parent_db_after = last.db0
                   /\ last.ret = last.input

\* A committed Response whose scope had logged a transfer, merged into a
\* parent that held an entry of its own.
C9_Witness ==
    /\ last.op = "handle_tx_result"
    /\ last.input = Ok("Response(true)")
    /\ sp[last.id] = "committed"
    /\ last.self_map # AssetMapNew
    /\ last.parent_map_before # AssetMapNew
    /\ last.parent_map_after # last.parent_map_before

(***************************************************************************)
(* C10: execute_transaction rejects a call before running anything: a      *)
(* tx_name the contract does not define fails with UndefinedFunction, one  *)
(* that is defined but not public with NonPublicFunction, and a public one *)
(* given an argument that is no atom literal with InterpreterError; the    *)
(* function is not executed, no nested save point is opened, and the       *)
(* database and the AssetMap are unchanged.                                *)
(***************************************************************************)
ExpectedRejection ==
    IF opArgs.tx_name \notin {"pay", "get", "helper"} THEN "UndefinedFunction"
    ELSE IF opArgs.tx_name = "helper" THEN "NonPublicFunction"
    ELSE IF ~opArgs.args_atoms THEN "InterpreterError"
    ELSE "none"

C10_RejectedBeforeRunning ==
    (/\ op = "execute_transaction"
     /\ phase # "idle"
     /\ opArgs.contract_name \in startDb.contracts
     /\ ExpectedRejection # "none")
        => /\ phase = "done"
           /\ ~result.ok
           /\ result.err = ExpectedRejection
           /\ result.asset_map = AssetMapNew
           /\ last.op = "execute_contract"
           /\ steps = 0
           /\ nextId = 1
           /\ \A i \in 1 .. MaxScopes : sp[i] = "unopened" /\ spCalls[i] = 0
           /\ scopes = <<>>
           /\ committed = startDb

\* A public function called with an argument that is no atom literal,
\* on a database that holds the contract and a written value.
C10_Witness ==
    /\ op = "execute_transaction"
    /\ phase = "done"
    /\ opArgs.contract_name \in startDb.contracts
    /\ opArgs.tx_name = "pay"
    /\ ~opArgs.args_atoms
    /\ result.err = "InterpreterError"
    /\ \E k \in DbKeys : startDb.data[k] # 0
(***************************************************************************)
(* C11: initialize_contract makes the contract visible only on success.    *)
(* When Contract::initialize succeeds the contract is inserted under its   *)
(* name inside the nested save point, that save point is committed, and    *)
(* the contract and the writes of the initialization are in the database   *)
(* afterwards.  When it fails the nested save point is rolled back, the    *)
(* error is returned, and the database is what it was before the call: no  *)
(* write of the initialization and no contract it did not hold before.     *)
(***************************************************************************)
C11_InitializeContract ==
    (last.op = "initialize_contract")
        => /\ phase = "done"
           /\ op = "initialize_contract"
           /\ spCalls[last.id] = 1
           /\ IF last.input.ok
              THEN /\ opArgs.contract_name \in last.self_db.contracts
                   /\ sp[last.id] = "committed"
                   /\ last.parent_db_after = last.self_db
                   /\ result.ok
                   /\ committed = last.self_db
                   /\ opArgs.contract_name \in committed.contracts
              ELSE /\ sp[last.id] = "rolled_back"
                   /\ last.parent_db_after = last.db0
                   /\ ~result.ok
                   /\ result.err = last.input.err
                   /\ committed = startDb
                   /\ (opArgs.contract_name \in committed.contracts)
                        <=> (opArgs.contract_name \in startDb.contracts)

\* An initialization that failed after writing to the database, in a
\* database that holds a contract from an initialization that succeeded.
C11_Witness ==
    /\ last.op = "initialize_contract"
    /\ ~last.input.ok
    /\ last.self_db # last.db0
    /\ committed.contracts # {}

(***************************************************************************)
(* Claims about the CallStack (checked under SpecCallStack)                *)
(***************************************************************************)

\* Every call so far is one half of an insert/remove pair: each remove
\* named the identifier and the flag of the last insert not yet removed,
\* and no insert is left without its remove.
BalancedSequenceDone == cs_balanced /\ cs_pending = <<>>

(***************************************************************************)
(* C12: after any balanced sequence of insert/remove pairs starting from   *)
(* an empty CallStack, depth() is 0 and contains(f) is false for every     *)
(* function identifier f.                                                  *)
(***************************************************************************)
C12_BalancedLeavesEmpty ==
    BalancedSequenceDone
        => /\ depth(call_stack) = 0
           /\ \A f \in FunctionIdentifiers : ~contains(call_stack, f)

\* A tracked insert has been removed, which completes a balanced sequence.
C12_Witness ==
    /\ BalancedSequenceDone
    /\ cs_last.op = "remove"
    /\ cs_last.flag
    /\ cs_last.ret.ok
    /\ depth(cs_last.before) = 1
    /\ contains(cs_last.before, cs_last.function)

(***************************************************************************)
(* C15: in every state reachable by insert and remove calls, with any      *)
(* flags and any identifiers, every identifier in the tracked set also     *)
(* appears in the stack.                                                   *)
(***************************************************************************)
C15_SetWithinStack ==
    \A f \in call_stack.set : \E i \in 1 .. Len(call_stack.stack) : call_stack.stack[i] = f

(***************************************************************************)
(* C16: whenever remove returns InterpreterError, because the stack is     *)
(* empty or because the identifier on top of it is not the one named, the  *)
(* stack and the tracked set are what they were before the call.           *)
(***************************************************************************)
C16_FailedRemoveKeepsState ==
    (cs_last.op = "remove" /\ cs_last.ret = Err("InterpreterError"))
        => call_stack = cs_last.before

(***************************************************************************)
(* Claims about LocalContext (checked under SpecLocalContext)              *)
(***************************************************************************)

(***************************************************************************)
(* C13: extend succeeds exactly when the context's depth is below 256,     *)
(* and then produces a child of depth + 1 whose parent is the extended     *)
(* context; at depth 256 it fails with MaxContextDepthReached.  From a     *)
(* root context 256 successive extends succeed and the 257th fails, and    *)
(* no LocalContext has a depth above 256; a context has depth 0 exactly    *)
(* when it has no parent.                                                  *)
(***************************************************************************)
C13_ExtendDepthCap ==
    /\ Len(lc_chain) <= MAX_CONTEXT_DEPTH + 1
    /\ \A i \in 1 .. Len(lc_chain) :
          /\ lc_chain[i].depth <= MAX_CONTEXT_DEPTH
          /\ (lc_chain[i].depth = 0) <=> ~lc_chain[i].parent.some
    /\ (lc_last.op = "extend")
        => LET extended == lc_chain[lc_last.self]
           IN /\ lc_last.ok <=> (extended.depth < 256)
              /\ lc_last.ok
                   => /\ Innermost = lc_last.self + 1
                      /\ lc_chain[Innermost].depth = extended.depth + 1
                      /\ lc_chain[Innermost].parent = Some(lc_last.self)
              /\ ~lc_last.ok
                   => /\ lc_last.err = "MaxContextDepthReached"
                      /\ extended.depth = 256
                      /\ Innermost = lc_last.self
                      /\ Len(lc_chain) = 257

\* The 257th extend from the root has failed, after 256 that succeeded.
C13_Witness ==
    /\ lc_last.op = "extend"
    /\ ~lc_last.ok
    /\ Len(lc_chain) = 257
    /\ lc_chain[257].depth = 256

\* The positions, from the context queried up to the root, of the contexts
\* that define name.
Defining(name, self) == {j \in 1 .. self : name \in DOMAIN lc_chain[j].variables}

(***************************************************************************)
(* C14: in a chain built by successive extends, lookup_variable(name)      *)
(* returns the value bound in the innermost context, from the one queried  *)
(* up to the root, that defines name, and none when no context from the    *)
(* one queried up to the root defines it.                                  *)
(***************************************************************************)
C14_LookupInnermost ==
    (lc_last.op = "lookup")
        => LET D == Defining(lc_last.name, lc_last.self)
           IN IF D = {}
              THEN lc_last.result = None
              ELSE LET j == CHOOSE j \in D : \A k \in D : k <= j
                   IN lc_last.result = Some(lc_chain[j].variables[lc_last.name])

\* A lookup from the deepest context of a name that two outer contexts
\* bind to different values.
C14_Witness ==
    /\ lc_last.op = "lookup"
    /\ lc_last.self = MAX_CONTEXT_DEPTH + 1
    /\ lc_last.result.some
    /\ \E j, k \in Defining(lc_last.name, lc_last.self) :
          /\ j < k
          /\ lc_chain[j].variables[lc_last.name] # lc_chain[k].variables[lc_last.name]

(***************************************************************************)
(* Claims about the scope stack, continued (checked under Spec)            *)
(***************************************************************************)

(***************************************************************************)
(* C17: execute_function_as_transaction on a read-only function always     *)
(* rolls its nested save point back, by one roll_back and no commit, and   *)
(* never merges the nested AssetMap into the parent, whatever the function *)
(* returns; the function's result is returned unchanged, a value that is   *)
(* no Response included.                                                   *)
(***************************************************************************)
C17_ReadOnlyFunction ==
    (last.op = "read_only_function")
        => /\ sp[last.id] = "rolled_back"
           /\ spCalls[last.id] = 1
           /\ last.parent_map_after = last.parent_map_before
           /\ last.parent_db_after = last.db0
           /\ last.ret = last.input
           /\ (phase = "running") => CallerIs(last.parent_map_before, last.db0)
           /\ (phase = "done")
                => /\ result.ok = last.input.ok
                   /\ result.val = last.input.val
                   /\ result.err = last.input.err
                   /\ result.asset_map = AssetMapNew
                   /\ committed = startDb

\* A read-only function that returned a value that is no Response, after
\* logging a transfer and writing to the database.
C17_Witness ==
    /\ last.op = "read_only_function"
    /\ last.input = Ok("Int")
    /\ last.self_map # AssetMapNew
    /\ last.self_db # last.db0

(***************************************************************************)
(* C18: read_only is inherited monotonically down the scope stack.  The    *)
(* root scope is not read-only; a scope made by nest_read_only is          *)
(* read-only; a scope made by nest is read-only exactly when the scope it  *)
(* was nested from is.  So once a scope of the stack is read-only, every   *)
(* scope nested below it is read-only.                                     *)
(***************************************************************************)
C18_ReadOnlyInherited ==
    /\ Len(scopes) >= 1 => (~scopes[1].read_only /\ ~scopes[1].has_parent)
    /\ \A i \in 2 .. Len(scopes) :
          /\ scopes[i].has_parent
          /\ scopes[i].make_read_only => scopes[i].read_only
          /\ ~scopes[i].make_read_only => (scopes[i].read_only = scopes[i - 1].read_only)
    /\ \A i, j \in 1 .. Len(scopes) :
          (i < j /\ scopes[i].read_only) => scopes[j].read_only

\* A scope opened by nest, for a function that is not read-only, under the
\* scope of a read-only function.
C18_Witness ==
    /\ Len(scopes) = 3
    /\ scopes[2].make_read_only
    /\ scopes[3].owner = "execute_function_as_transaction"
    /\ ~scopes[3].make_read_only
    /\ scopes[3].read_only

\* The step is the return of the call that owns the innermost scope.
ScopeReturns == phase = "running" /\ Len(scopes') < Len(scopes)

\* No scope but the innermost one has its AssetMap changed by the step.
ParentMapsKept(upto) ==
    \A i \in 1 .. upto :
        i <= Len(scopes') => scopes'[i].asset_map = scopes[i].asset_map

(***************************************************************************)
(* C19: a parent scope's AssetMap changes only when a child scope commits. *)
(* While a nested scope is open, no step, log_asset_transfer on the child  *)
(* included, changes the AssetMap of a scope that has an open child; when  *)
(* the child returns, the parent's AssetMap is still what it was at nest() *)
(* unless the child's save point is committed, and then it is the merge.   *)
(***************************************************************************)
C19_ParentMapChangesAtCommit ==
    [][/\ (phase = "running" /\ ~ScopeReturns) => ParentMapsKept(Len(scopes) - 1)
       /\ ScopeReturns
            => LET n == Len(scopes)
               IN /\ ParentMapsKept(n - 2)
                  /\ last'.parent_map_before = scopes[n - 1].asset_map
                  /\ (last'.outcome # "committed")
                       => /\ last'.parent_map_after = scopes[n - 1].asset_map
                          /\ n > 2 => scopes'[n - 1].asset_map = scopes[n - 1].asset_map
                  /\ (last'.outcome = "committed")
                       => IsMerge(scopes[n - 1].asset_map, scopes[n].asset_map,
                                  last'.parent_map_after)
      ]_vars

\* A nested call that had logged a transfer was rolled back, and returned
\* to a scope that had logged one before the call.
C19_Witness ==
    /\ phase = "running"
    /\ last.outcome = "rolled_back"
    /\ last.self_map # AssetMapNew
    /\ last.parent_map_before # AssetMapNew
    /\ CallerIs(last.parent_map_before, last.db0)

(***************************************************************************)
(* C20: save points resolve strictly last-opened-first: in every           *)
(* execution, the ones where a nested call fails included, a scope's save  *)
(* point is committed or rolled back only after every save point opened    *)
(* inside that scope has itself been committed or rolled back.             *)
(***************************************************************************)
C20_LastOpenedFirst ==
    \A i \in 1 .. MaxScopes :
        (sp[i] # "unopened" /\ sp[spParent[i]] \in {"committed", "rolled_back"})
            => sp[i] \in {"committed", "rolled_back"}

(***************************************************************************)
(* Claims about add_transfer (checked under SpecAddTransfer)               *)
(***************************************************************************)

\* The amount the map held for the call's (principal, asset), 0 when none.
CurrentAmount == AmountOf(at_last.before, <<at_last.principal, at_last.asset>>)

(***************************************************************************)
(* C21: add_transfer uses checked signed 128-bit addition.  When current + *)
(* amount, current being 0 for a missing entry, is within the i128 range,  *)
(* the call succeeds, the entry for (principal, asset) holds that sum and  *)
(* every other entry is unchanged, for negative and positive amounts       *)
(* alike; otherwise the call fails with ArithmeticOverflow and the map is  *)
(* unchanged.                                                              *)
(***************************************************************************)
C21_AddTransferChecked ==
    (at_last.op = "add_transfer")
        => LET e == <<at_last.principal, at_last.asset>>
               sum == CurrentAmount + at_last.amount
           IN IF I128_MIN <= sum /\ sum <= I128_MAX
              THEN /\ at_last.ret = Ok("Unit")
                   /\ Entries(at_map) = Entries(at_last.before) \cup {e}
                   /\ at_map[e[1]][e[2]] = sum
                   /\ \A o \in Entries(at_last.before) \ {e} :
                         at_map[o[1]][o[2]] = at_last.before[o[1]][o[2]]
              ELSE /\ at_last.ret = Err("ArithmeticOverflow")
                   /\ at_map = at_last.before

\* i128::MAX was logged for a principal and an asset, and a transfer of 1
\* for the same two has failed; the map holds a negative amount as well.
C21_Witness ==
    /\ at_last.op = "add_transfer"
    /\ at_last.amount = 1
    /\ CurrentAmount = I128_MAX
    /\ ~at_last.ret.ok
    /\ \E o \in Entries(at_map) : at_map[o[1]][o[2]] < 0

====
